---- MODULE Spec2Model ----
(***************************************************************************)
(* Marketplace API (src/main.py, src/schemas.py): register / login, the    *)
(* product catalogue with flash sales, and the per-user cart, over a       *)
(* document store.  Each HTTP handler runs on its own worker; a handler's  *)
(* steps are its round trips to the store, so two handlers interleave at   *)
(* store-operation granularity.                                            *)
(***************************************************************************)
EXTENDS Integers, Sequences, FiniteSets, TLC

\* ---------------------------------------------------------------- bounds
NumWorkers == 2
MaxCalls == 3
MaxTime == 1

\* ------------------------------------------------------ program constants
MinQuantity == 1
MaxQuantity == 10
MinDiscount == 1
MaxDiscount == 95
MinPrice == 0

Workers == 1..NumWorkers
Names == {"Ann"}
Emails == {"a@x.io", "b@x.io"}
Passwords == {"pw1", "pw2"}
UserIds == {"u1"}
ProductIds == {"p1", "p2"}
\* quantities as they arrive: in range, and just outside it on either side
Quantities == {MinQuantity - 1, MinQuantity, 7, MaxQuantity + 1}
EndTimes == 0..(MaxTime + 1)
\* titles and search strings, as sequences of characters
Phone == <<"P", "h", "o", "n", "e">>
Lamp == <<"L", "a", "m", "p">>
Queries == {<<>>, <<"p", "h">>}
\* create-product payloads: the plain product, one flash sale per end time,
\* a negative price, and a discount just outside [1, 95] on either side
ProductPayloads ==
    {[title |-> Lamp, price |-> MinPrice, flash_sale |-> <<>>],
     [title |-> Lamp, price |-> MinPrice - 1, flash_sale |-> <<>>],
     [title |-> Phone, price |-> 5,
      flash_sale |-> <<[discount_percent |-> MinDiscount - 1, ends_at |-> 0]>>],
     [title |-> Phone, price |-> 5,
      flash_sale |-> <<[discount_percent |-> MaxDiscount + 1, ends_at |-> 0]>>]}
    \cup {[title |-> Phone, price |-> 5,
           flash_sale |-> <<[discount_percent |-> 50, ends_at |-> t]>>] : t \in EndTimes}

VARIABLES
    user,       \* db["user"]: documents in natural (insertion) order
    product,    \* db["product"]
    cartitem,   \* db["cartitem"]
    now,        \* the UTC clock read by datetime.now
    pc,         \* per worker: the handler's position
    req,        \* per worker: the validated request payload
    loc,        \* per worker: the handler's locals (existing, the new id, now)
    resp,       \* per worker: the HTTP response
    snap,       \* per worker: the handler's collection as its first store call saw it
    added,      \* per (user_id, product_id): quantity requested so far, capped
    calls,      \* number of requests accepted so far
    serial      \* whether the client sends one request at a time

vars ==
    <<user, product, cartitem, now, pc, req, loc, resp, snap, added, calls, serial>>

\* ---------------------------------------------------------------- helpers
Min(a, b) == IF a <= b THEN a ELSE b

\* str(ObjectId): the identifier rendered as text.
StrId(oid) == ToString(oid)

\* ObjectId(text): the identifier parsed back from its text.
ObjectId(s) == CHOOSE i \in 0..(MaxCalls + 1) : ToString(i) = s

\* hashlib.sha256(plain.encode()).hexdigest(): deterministic, collision-free
\* on the passwords in play, and never the plaintext.
hash_password(plain) == <<"sha256", plain>>

\* find_one over the matching documents, kept in natural order: <<>> (None)
\* or <<the first of them>>.
First(matching) == IF matching = <<>> THEN <<>> ELSE <<Head(matching)>>

\* create_document(collection, data): the store assigns a fresh _id, appends
\* the document, and the id is returned as text.
NewId(coll) == Len(coll) + 1
create_document(coll, data) == Append(coll, [_id |-> NewId(coll)] @@ data)

NoReq == [op |-> "none"]
NoResp == [status |-> 0]
NoLoc == [existing |-> <<>>, id |-> "", now |-> 0]

\* The store is empty and no request is in flight.
InitStore ==
    /\ user = <<>>
    /\ product = <<>>
    /\ cartitem = <<>>
    /\ now = 0
    /\ pc = [w \in Workers |-> "idle"]
    /\ req = [w \in Workers |-> NoReq]
    /\ loc = [w \in Workers |-> NoLoc]
    /\ resp = [w \in Workers |-> NoResp]
    /\ snap = [w \in Workers |-> <<>>]
    /\ added = [k \in UserIds \X ProductIds |-> 0]
    /\ calls = 0

\* Requests overlap freely.
Init == InitStore /\ serial = FALSE
\* The next request is sent once every response has been read.
InitSerial == InitStore /\ serial = TRUE

\* A request is accepted by an idle worker while the call budget lasts; a
\* serial client has no other request in flight.
Accept(w) ==
    /\ pc[w] = "idle"
    /\ serial => \A v \in Workers : pc[v] = "idle"
    /\ calls < MaxCalls
    /\ calls' = calls + 1

\* ------------------------------------------------------------- register
\* The lookup of line 57 keyed on the wrong field.
UserByName(coll, email) == First(SelectSeq(coll, LAMBDA d : d.name = email))

\* find_one({"email": email}) of lines 57 and 74.
UserByEmail(coll, email) == First(SelectSeq(coll, LAMBDA d : d.email = email))

EmailExists == [status |-> 400, detail |-> "Email already registered"]

\* lines 57-59: the existence check.
RegisterCheck(w, name, email, password) ==
    /\ Accept(w)
    /\ LET existing == UserByEmail(user, email) IN
        /\ req' = [req EXCEPT ![w] = [op |-> "register", name |-> name,
                                      email |-> email, password |-> password]]
        /\ snap' = [snap EXCEPT ![w] = user]
        /\ loc' = [loc EXCEPT ![w].existing = existing]
        /\ IF existing # <<>>
           THEN /\ resp' = [resp EXCEPT ![w] = EmailExists]
                /\ pc' = [pc EXCEPT ![w] = "done"]
           ELSE /\ resp' = resp
                /\ pc' = [pc EXCEPT ![w] = "register_create"]
    /\ UNCHANGED <<user, product, cartitem, now, added, serial>>

NewUser(r) ==
    [name |-> r.name, email |-> r.email,
     password_hash |-> hash_password(r.password),
     avatar_url |-> <<>>, is_active |-> TRUE]

\* lines 61-69: build the User, insert it, answer with its id.
RegisterCreate(w) ==
    /\ pc[w] = "register_create"
    /\ user' = create_document(user, NewUser(req[w]))
    /\ resp' = [resp EXCEPT ![w] =
                 [status |-> 200,
                  body |-> [id |-> StrId(NewId(user)), name |-> req[w].name,
                            email |-> req[w].email]]]
    /\ pc' = [pc EXCEPT ![w] = "done"]
    /\ UNCHANGED <<product, cartitem, now, req, loc, snap, added, calls, serial>>

\* ---------------------------------------------------------------- login
InvalidCredentials == [status |-> 401, detail |-> "Invalid credentials"]

\* The password check of line 77.
PasswordMatches(u, password) == u.password_hash = hash_password(password)

\* lines 74-80: one find_one, then the two 401 branches or the token.
Login(w, email, password) ==
    /\ Accept(w)
    /\ LET found == UserByEmail(user, email) IN
        /\ req' = [req EXCEPT ![w] = [op |-> "login", email |-> email,
                                      password |-> password]]
        /\ snap' = [snap EXCEPT ![w] = user]
        /\ loc' = [loc EXCEPT ![w].existing = found]
        /\ resp' = [resp EXCEPT ![w] =
                     IF found = <<>> THEN InvalidCredentials
                     ELSE IF ~PasswordMatches(found[1], password)
                          THEN InvalidCredentials
                     ELSE [status |-> 200,
                           body |-> [token |-> StrId(found[1]._id),
                                     user |-> [id |-> StrId(found[1]._id),
                                               name |-> found[1].name,
                                               email |-> found[1].email]]]]
    /\ pc' = [pc EXCEPT ![w] = "done"]
    /\ UNCHANGED <<user, product, cartitem, now, added, serial>>

\* -------------------------------------------------------------- products
ById(coll, oid) == First(SelectSeq(coll, LAMBDA d : d._id = oid))

\* to_str_id then ProductOut(**doc): _id leaves, id (text) enters.  The fields
\* no handler reads (description, category, images, seller_id, in_stock) are
\* copied through unchanged and left out.
ProductOut(d) ==
    [id |-> StrId(d._id), title |-> d.title, price |-> d.price,
     flash_sale |-> d.flash_sale]

\* FlashSale: discount_percent ge=1, le=95.  flash_sale is <<>> (None) or
\* <<[discount_percent, ends_at]>>.
ValidFlashSale(fs) ==
    fs = <<>> \/ (/\ MinDiscount <= fs[1].discount_percent
                  /\ fs[1].discount_percent <= MaxDiscount)

\* ProductCreate, the request model: price is a bare float.
ValidProductCreate(payload) == ValidFlashSale(payload.flash_sale)

\* Product, the collection model: price ge=0.
ValidProduct(data) == data.price >= MinPrice /\ ValidFlashSale(data.flash_sale)

\* The framework's answer to a body that fails its request model.
Unprocessable == [status |-> 422, detail |-> "validation error"]

\* The framework's answer to an exception a handler lets escape.
ServerError == [status |-> 500, detail |-> "Internal Server Error"]

\* lines 84-97: the body is validated as a ProductCreate; the handler builds
\* the Product, which validates again, and inserts it.
CreateProduct(w, payload) ==
    /\ Accept(w)
    /\ req' = [req EXCEPT ![w] = [op |-> "create_product", payload |-> payload]]
    /\ snap' = [snap EXCEPT ![w] = product]
    /\ IF ~ValidProductCreate(payload)
       THEN /\ resp' = [resp EXCEPT ![w] = Unprocessable]
            /\ pc' = [pc EXCEPT ![w] = "done"]
            /\ UNCHANGED <<product, loc>>
       ELSE IF ~ValidProduct(payload)
       THEN /\ resp' = [resp EXCEPT ![w] = ServerError]
            /\ pc' = [pc EXCEPT ![w] = "done"]
            /\ UNCHANGED <<product, loc>>
       ELSE /\ product' = create_document(product, payload)
            /\ loc' = [loc EXCEPT ![w].id = StrId(NewId(product))]
            /\ pc' = [pc EXCEPT ![w] = "product_fetch"]
            /\ resp' = resp
    /\ UNCHANGED <<user, cartitem, now, added, serial>>

\* lines 98-99: re-fetch by id and project.
ProductFetch(w) ==
    /\ pc[w] = "product_fetch"
    /\ LET created == ById(product, ObjectId(loc[w].id)) IN
        resp' = [resp EXCEPT ![w] = [status |-> 200, body |-> ProductOut(created[1])]]
    /\ pc' = [pc EXCEPT ![w] = "done"]
    /\ UNCHANGED <<user, product, cartitem, now, req, loc, snap, added, calls, serial>>

\* "$options": "i": letters compare folded to lower case.
ToLower(c) == CASE c = "P" -> "p" [] c = "L" -> "l" [] OTHER -> c
Fold(str) == [i \in 1..Len(str) |-> ToLower(str[i])]

\* {"$regex": q, "$options": "i"} for a q of plain letters: q occurs in the
\* title, case folded.
TitleMatches(title, q) ==
    \E i \in 0..(Len(title) - Len(q)) :
        SubSeq(Fold(title), i + 1, i + Len(q)) = Fold(q)

\* lines 104-108: the filter built from q and flash_only.
ListFilter(d, q, flash_only) ==
    /\ q # <<>> => TitleMatches(d.title, q)
    /\ flash_only => d.flash_sale # <<>>

\* lines 102-111.
list_products(w, q, flash_only) ==
    /\ Accept(w)
    /\ req' = [req EXCEPT ![w] = [op |-> "list_products", q |-> q,
                                  flash_only |-> flash_only]]
    /\ snap' = [snap EXCEPT ![w] = product]
    /\ LET docs == SelectSeq(product, LAMBDA d : ListFilter(d, q, flash_only)) IN
        resp' = [resp EXCEPT ![w] =
                  [status |-> 200,
                   body |-> [i \in 1..Len(docs) |-> ProductOut(docs[i])]]]
    /\ pc' = [pc EXCEPT ![w] = "done"]
    /\ UNCHANGED <<user, product, cartitem, now, loc, added, serial>>

\* The filter of line 140 with $gte for $gt.
FlashActiveOrEnding(d, t) == d.flash_sale # <<>> /\ d.flash_sale[1].ends_at >= t

\* {"flash_sale.ends_at": {"$gt": now}}: a document without a flash_sale has
\* no such field and does not match.
FlashActive(d, t) == d.flash_sale # <<>> /\ d.flash_sale[1].ends_at > t

\* cursor.sort("flash_sale.ends_at", 1): insertion of each document after the
\* documents whose key is not greater.
RECURSIVE InsertByEndsAt(_, _)
InsertByEndsAt(d, sorted) ==
    IF sorted = <<>> THEN <<d>>
    ELSE IF Head(sorted).flash_sale[1].ends_at <= d.flash_sale[1].ends_at
         THEN <<Head(sorted)>> \o InsertByEndsAt(d, Tail(sorted))
    ELSE <<d>> \o sorted

RECURSIVE SortByEndsAt(_)
SortByEndsAt(docs) ==
    IF docs = <<>> THEN <<>>
    ELSE InsertByEndsAt(docs[Len(docs)], SortByEndsAt(SubSeq(docs, 1, Len(docs) - 1)))

\* lines 139-141.
flash_sales(w) ==
    /\ Accept(w)
    /\ req' = [req EXCEPT ![w] = [op |-> "flash"]]
    /\ snap' = [snap EXCEPT ![w] = product]
    /\ loc' = [loc EXCEPT ![w].now = now]
    /\ LET docs == SortByEndsAt(SelectSeq(product, LAMBDA d : FlashActive(d, now))) IN
        resp' = [resp EXCEPT ![w] =
                  [status |-> 200,
                   body |-> [i \in 1..Len(docs) |-> ProductOut(docs[i])]]]
    /\ pc' = [pc EXCEPT ![w] = "done"]
    /\ UNCHANGED <<user, product, cartitem, now, added, serial>>

\* ------------------------------------------------------------------ cart
\* The lookup of line 118 without its product_id key.
CartRowByUser(coll, uid, pid) == First(SelectSeq(coll, LAMBDA d : d.user_id = uid))

\* find_one({"user_id": uid, "product_id": pid}) of line 118.
CartRow(coll, uid, pid) ==
    First(SelectSeq(coll, LAMBDA d : d.user_id = uid /\ d.product_id = pid))

\* Line 120 without its min(10, ...).
NewQtyUncapped(existing_qty, quantity) == existing_qty + quantity

\* line 120.
NewQty(existing_qty, quantity) == Min(MaxQuantity, existing_qty + quantity)

\* The update of line 121 with a filter that matches every row.
UpdateEveryRow(coll, oid, q) ==
    [i \in 1..Len(coll) |-> [coll[i] EXCEPT !.quantity = q]]

\* update_one({"_id": oid}, {"$set": {"quantity": q}}).
UpdateQuantity(coll, oid, q) ==
    [i \in 1..Len(coll) |->
        IF coll[i]._id = oid /\ \A j \in 1..(i - 1) : coll[j]._id # oid
        THEN [coll[i] EXCEPT !.quantity = q] ELSE coll[i]]

CartItemOut(id, pid, q) == [id |-> id, product_id |-> pid, quantity |-> q]

\* CartItem, the request model of /cart/add: quantity ge=1, le=10.
ValidCartItem(q) == MinQuantity <= q /\ q <= MaxQuantity

\* lines 115-119: the body is validated as a CartItem, and answered before the
\* handler runs when it fails; the handler looks the row up.
CartFind(w, uid, pid, q) ==
    /\ Accept(w)
    /\ req' = [req EXCEPT ![w] = [op |-> "add_to_cart", user_id |-> uid,
                                  product_id |-> pid, quantity |-> q]]
    /\ snap' = [snap EXCEPT ![w] = cartitem]
    /\ IF ~ValidCartItem(q)
       THEN /\ resp' = [resp EXCEPT ![w] = Unprocessable]
            /\ pc' = [pc EXCEPT ![w] = "done"]
            /\ UNCHANGED <<loc, added>>
       ELSE /\ LET existing == CartRow(cartitem, uid, pid) IN
                /\ loc' = [loc EXCEPT ![w].existing = existing]
                /\ pc' = [pc EXCEPT ![w] =
                           IF existing # <<>> THEN "cart_update" ELSE "cart_create"]
            \* the observer's tally of what was asked for, capped like the stored sum
            /\ added' = [added EXCEPT ![<<uid, pid>>] = Min(MaxQuantity, @ + q)]
            /\ resp' = resp
    /\ UNCHANGED <<user, product, cartitem, now, serial>>

\* lines 120-123: write the increased quantity to the row found.
CartUpdate(w) ==
    /\ pc[w] = "cart_update"
    /\ LET existing == loc[w].existing[1]
           new_qty == NewQty(existing.quantity, req[w].quantity) IN
        /\ cartitem' = UpdateQuantity(cartitem, existing._id, new_qty)
        /\ resp' = [resp EXCEPT ![w] =
                     [status |-> 200,
                      body |-> CartItemOut(StrId(existing._id),
                                           existing.product_id, new_qty)]]
    /\ pc' = [pc EXCEPT ![w] = "done"]
    /\ UNCHANGED <<user, product, now, req, loc, snap, added, calls, serial>>

\* line 125: insert the item as a new row.
CartCreate(w) ==
    /\ pc[w] = "cart_create"
    /\ cartitem' = create_document(cartitem,
                      [user_id |-> req[w].user_id,
                       product_id |-> req[w].product_id,
                       quantity |-> req[w].quantity])
    /\ loc' = [loc EXCEPT ![w].id = StrId(NewId(cartitem))]
    /\ pc' = [pc EXCEPT ![w] = "cart_fetch"]
    /\ UNCHANGED <<user, product, now, req, resp, snap, added, calls, serial>>

\* lines 126-127: re-fetch the new row and project it.
CartFetch(w) ==
    /\ pc[w] = "cart_fetch"
    /\ LET created == ById(cartitem, ObjectId(loc[w].id))[1] IN
        resp' = [resp EXCEPT ![w] =
                  [status |-> 200,
                   body |-> CartItemOut(StrId(created._id), created.product_id,
                                        created.quantity)]]
    /\ pc' = [pc EXCEPT ![w] = "done"]
    /\ UNCHANGED <<user, product, cartitem, now, req, loc, snap, added, calls, serial>>

\* lines 130-133.
get_cart(w, uid) ==
    /\ Accept(w)
    /\ req' = [req EXCEPT ![w] = [op |-> "get_cart", user_id |-> uid]]
    /\ snap' = [snap EXCEPT ![w] = cartitem]
    /\ LET docs == SelectSeq(cartitem, LAMBDA d : d.user_id = uid) IN
        resp' = [resp EXCEPT ![w] =
                  [status |-> 200,
                   body |-> [i \in 1..Len(docs) |->
                               CartItemOut(StrId(docs[i]._id), docs[i].product_id,
                                           docs[i].quantity)]]]
    /\ pc' = [pc EXCEPT ![w] = "done"]
    /\ UNCHANGED <<user, product, cartitem, now, loc, added, serial>>

\* ------------------------------------------------------------ scheduling
\* The client reads the response; the worker is free again.
Return(w) ==
    /\ pc[w] = "done"
    /\ pc' = [pc EXCEPT ![w] = "idle"]
    /\ req' = [req EXCEPT ![w] = NoReq]
    /\ loc' = [loc EXCEPT ![w] = NoLoc]
    /\ resp' = [resp EXCEPT ![w] = NoResp]
    /\ snap' = [snap EXCEPT ![w] = <<>>]
    /\ UNCHANGED <<user, product, cartitem, now, added, calls, serial>>

\* The clock advances.
Tick ==
    /\ now < MaxTime
    /\ now' = now + 1
    /\ UNCHANGED <<user, product, cartitem, pc, req, loc, resp, snap, added, calls, serial>>

\* The requests that pass both validations.
AcceptedQuantities == {q \in Quantities : ValidCartItem(q)}
AcceptedPayloads ==
    {p \in ProductPayloads : ValidProductCreate(p) /\ ValidProduct(p)}

\* ------------------------------------------------- the handlers by domain
AuthCall ==
    \/ \E w \in Workers, n \in Names, e \in Emails, p \in Passwords :
          RegisterCheck(w, n, e, p)
    \/ \E w \in Workers, e \in Emails, p \in Passwords : Login(w, e, p)

AuthStep ==
    \/ \E w \in Workers : RegisterCreate(w)
    \/ \E w \in Workers : Return(w)

CartCall(quantities) ==
    \E w \in Workers, u \in UserIds, p \in ProductIds, q \in quantities :
        CartFind(w, u, p, q)

CartStep ==
    \/ \E w \in Workers : CartUpdate(w)
    \/ \E w \in Workers : CartCreate(w)
    \/ \E w \in Workers : CartFetch(w)
    \/ \E w \in Workers : Return(w)

CatalogCall(payloads) ==
    \/ \E w \in Workers, payload \in payloads : CreateProduct(w, payload)
    \/ \E w \in Workers : flash_sales(w)

CatalogStep ==
    \/ \E w \in Workers : ProductFetch(w)
    \/ \E w \in Workers : Return(w)
    \/ Tick

\* The two listings, which only read.
ListingCall ==
    \/ \E w \in Workers, q \in Queries, f \in BOOLEAN : list_products(w, q, f)
    \/ \E w \in Workers, u \in UserIds : get_cart(w, u)

AnyCall ==
    \/ AuthCall
    \/ CartCall(Quantities)
    \/ CatalogCall(ProductPayloads)
    \/ ListingCall

Next == AnyCall \/ AuthStep \/ CartStep \/ CatalogStep

\* Each handler reads and writes one collection only, so the handlers of one
\* collection are also run on their own, on the requests that pass validation.
NextAuth == AuthCall \/ AuthStep
NextCart == CartCall(AcceptedQuantities) \/ CartStep
NextCatalog == CatalogCall(AcceptedPayloads) \/ CatalogStep

\* The whole service, requests overlapping freely.
Spec == Init /\ [][Next]_vars
\* The whole service, one request at a time.
SeqSpec == InitSerial /\ [][Next]_vars
\* One collection's handlers, requests overlapping freely.
AuthSpec == Init /\ [][NextAuth]_vars
CartSpec == Init /\ [][NextCart]_vars
CatalogSpec == Init /\ [][NextCatalog]_vars

\* ================================================================ claims
\* Every request accepted so far has been answered.
AllCompleted == \A w \in Workers : pc[w] \in {"idle", "done"}

Answered(w, op) == pc[w] = "done" /\ req[w].op = op

RowsOf(coll, uid, pid) ==
    SelectSeq(coll, LAMBDA d : d.user_id = uid /\ d.product_id = pid)

RECURSIVE TotalQuantity(_)
TotalQuantity(rows) ==
    IF rows = <<>> THEN 0 ELSE Head(rows).quantity + TotalQuantity(Tail(rows))

\* C1: once all add_to_cart calls have completed, the cartitem collection
\* holds at most one row per (user_id, product_id) pair, however the calls
\* overlapped.
C1_OneRowPerPair ==
    AllCompleted =>
        \A u \in UserIds, p \in ProductIds : Len(RowsOf(cartitem, u, p)) <= 1

\* C2: no increment is lost: once all add_to_cart calls have completed, the
\* quantity stored for a pair is min(10, the sum of the quantities added).
\* Stated for the pairs held in a single row, so that it is a lost increment
\* that refutes it and not the surplus of a duplicate row.
C2_NoLostIncrement ==
    AllCompleted =>
        \A u \in UserIds, p \in ProductIds :
            Len(RowsOf(cartitem, u, p)) = 1 =>
                TotalQuantity(RowsOf(cartitem, u, p)) = added[<<u, p>>]

\* C3: in every reachable state, every stored cart row has its quantity in
\* [1, 10].
C3_QuantityInRange ==
    \A i \in 1..Len(cartitem) :
        MinQuantity <= cartitem[i].quantity /\ cartitem[i].quantity <= MaxQuantity

\* C3 witness: an add has been answered whose sum passed the cap, and the row
\* it wrote is stored at the cap.
C3_Witness ==
    \E w \in Workers :
        /\ Answered(w, "add_to_cart")
        /\ loc[w].existing # <<>>
        /\ loc[w].existing[1].quantity + req[w].quantity > MaxQuantity
        /\ \E i \in 1..Len(cartitem) :
              /\ cartitem[i]._id = loc[w].existing[1]._id
              /\ cartitem[i].quantity = MaxQuantity

\* C4: a sequential add_to_cart(user_id, product_id, q), q in 1..10, on a pair with no row
\* creates exactly one row, with quantity q; on a pair whose row holds e it
\* updates that row in place to min(10, e + q) and inserts nothing; either way
\* the answer reports the quantity now stored.
C4_SequentialAdd ==
    \A w \in Workers :
        (/\ Answered(w, "add_to_cart")
         /\ MinQuantity <= req[w].quantity
         /\ req[w].quantity <= MaxQuantity) =>
            LET before == snap[w]
                r == req[w]
                rows == RowsOf(before, r.user_id, r.product_id)
                out == resp[w].body
            IN IF rows = <<>>
               THEN /\ Len(cartitem) = Len(before) + 1
                    /\ SubSeq(cartitem, 1, Len(before)) = before
                    /\ LET row == cartitem[Len(cartitem)] IN
                        /\ row.user_id = r.user_id
                        /\ row.product_id = r.product_id
                        /\ row.quantity = r.quantity
                        /\ \A i \in 1..Len(before) : before[i]._id # row._id
                        /\ out = [id |-> StrId(row._id),
                                  product_id |-> r.product_id,
                                  quantity |-> r.quantity]
               ELSE /\ Len(cartitem) = Len(before)
                    /\ \E i \in 1..Len(before) :
                        /\ before[i] = rows[1]
                        /\ cartitem[i] =
                             [before[i] EXCEPT !.quantity =
                                 IF @ + r.quantity > MaxQuantity
                                 THEN MaxQuantity ELSE @ + r.quantity]
                        /\ \A j \in 1..Len(before) :
                              j # i => cartitem[j] = before[j]
                        /\ out = [id |-> StrId(before[i]._id),
                                  product_id |-> r.product_id,
                                  quantity |-> cartitem[i].quantity]

\* C4 witness: a sequential add found a row for its pair beside a row of
\* another pair, its sum passed the cap, and it answered 10.
C4_Witness ==
    \E w \in Workers :
        /\ Answered(w, "add_to_cart")
        /\ resp[w].status = 200
        /\ Len(snap[w]) = 2
        /\ LET rows == RowsOf(snap[w], req[w].user_id, req[w].product_id) IN
            /\ Len(rows) = 1
            /\ rows[1].quantity + req[w].quantity > MaxQuantity
        /\ resp[w].body.quantity = MaxQuantity

\* C5: registering the same email twice in sequence: the first call succeeds
\* and inserts exactly one user, with is_active = true; the second fails with
\* 400 "Email already registered" and leaves the user collection unchanged.
C5_SequentialRegister ==
    \A w \in Workers :
        Answered(w, "register") =>
            LET before == snap[w]
                r == req[w]
            IN IF \A i \in 1..Len(before) : before[i].email # r.email
               THEN /\ resp[w].status = 200
                    /\ Len(user) = Len(before) + 1
                    /\ SubSeq(user, 1, Len(before)) = before
                    /\ LET u == user[Len(user)] IN
                        /\ u.email = r.email
                        /\ u.name = r.name
                        /\ u.is_active = TRUE
                        /\ resp[w].body =
                             [id |-> StrId(u._id), name |-> r.name, email |-> r.email]
               ELSE /\ resp[w] = [status |-> 400, detail |-> "Email already registered"]
                    /\ user = before

\* C5 witness: the second registration of an email has been refused, the user
\* of the first one being the only user stored.
C5_Witness ==
    \E w \in Workers :
        /\ Answered(w, "register")
        /\ resp[w].status = 400
        /\ Len(user) = 1
        /\ user[1].email = req[w].email
        /\ user[1].is_active

\* C6: in every reachable state no two stored users have the same email, also
\* when two register calls for one email overlap.
C6_EmailUnique ==
    \A i, j \in 1..Len(user) : i # j => user[i].email # user[j].email

\* C7: login succeeds iff a stored user has the exact email and the hash of
\* the password as its password_hash, the token then being that user's id;
\* otherwise the answer is the one 401 "Invalid credentials", whatever the
\* cause.
C7_Login ==
    \A w \in Workers :
        Answered(w, "login") =>
            LET stored == snap[w]
                r == req[w]
                Holder(i) == /\ stored[i].email = r.email
                             /\ stored[i].password_hash = hash_password(r.password)
            IN IF \E i \in 1..Len(stored) : Holder(i)
               THEN /\ resp[w].status = 200
                    /\ \E i \in 1..Len(stored) :
                          Holder(i) /\ resp[w].body.token = StrId(stored[i]._id)
               ELSE resp[w] = [status |-> 401, detail |-> "Invalid credentials"]

\* C7, as far as the code keeps it: the same, for a login that finds the
\* stored emails distinct.
LoginUnderUniqueEmails ==
    \A w \in Workers :
        (/\ Answered(w, "login")
         /\ \A i, j \in 1..Len(snap[w]) :
               i # j => snap[w][i].email # snap[w][j].email)
        => LET stored == snap[w]
               r == req[w]
               Holder(i) == /\ stored[i].email = r.email
                            /\ stored[i].password_hash = hash_password(r.password)
           IN IF \E i \in 1..Len(stored) : Holder(i)
              THEN /\ resp[w].status = 200
                   /\ \E i \in 1..Len(stored) :
                         Holder(i) /\ resp[w].body.token = StrId(stored[i]._id)
              ELSE resp[w] = [status |-> 401, detail |-> "Invalid credentials"]

\* C8: flash_sales returns exactly the stored products that have a flash_sale
\* with ends_at strictly greater than now, each once, in ascending order of
\* ends_at.
C8_FlashSales ==
    \A w \in Workers :
        Answered(w, "flash") =>
            LET stored == snap[w]
                t == loc[w].now
                out == resp[w].body
            IN /\ \A i \in 1..Len(stored) :
                    (/\ stored[i].flash_sale # <<>>
                     /\ stored[i].flash_sale[1].ends_at > t)
                    <=> \E j \in 1..Len(out) : out[j].id = StrId(stored[i]._id)
               /\ \A j \in 1..Len(out) :
                    \E i \in 1..Len(stored) :
                        /\ out[j].id = StrId(stored[i]._id)
                        /\ out[j] = [id |-> StrId(stored[i]._id), title |-> stored[i].title,
                                   price |-> stored[i].price,
                                   flash_sale |-> stored[i].flash_sale]
               /\ \A j, k \in 1..Len(out) : j # k => out[j].id # out[k].id
               /\ \A j, k \in 1..Len(out) :
                    j < k => out[j].flash_sale[1].ends_at <= out[k].flash_sale[1].ends_at

\* C8 witness: two running flash sales, stored latest-ending first, have been
\* returned soonest-ending first.
C8_Witness ==
    \E w \in Workers :
        /\ Answered(w, "flash")
        /\ Len(snap[w]) = 2
        /\ Len(resp[w].body) = 2
        /\ snap[w][1].flash_sale[1].ends_at > snap[w][2].flash_sale[1].ends_at
        /\ resp[w].body[1].id = StrId(snap[w][2]._id)
        /\ resp[w].body[2].id = StrId(snap[w][1]._id)
\* C9: an out-of-range field is rejected with a 4xx answer before any store
\* access: a create-product request with price < 0, or with a discount_percent
\* outside [1, 95], is answered 4xx and inserts nothing, so every stored
\* product has price >= 0 and, with a flash_sale, a discount in [1, 95].
C9_Validation ==
    /\ \A w \in Workers :
          (/\ Answered(w, "create_product")
           /\ LET pl == req[w].payload IN
               \/ pl.price < MinPrice
               \/ /\ pl.flash_sale # <<>>
                  /\ \/ pl.flash_sale[1].discount_percent < MinDiscount
                     \/ pl.flash_sale[1].discount_percent > MaxDiscount)
          => /\ resp[w].status >= 400
             /\ resp[w].status <= 499
             /\ product = snap[w]
    /\ \A i \in 1..Len(product) :
          /\ product[i].price >= MinPrice
          /\ product[i].flash_sale # <<>> =>
                /\ product[i].flash_sale[1].discount_percent >= MinDiscount
                /\ product[i].flash_sale[1].discount_percent <= MaxDiscount

OtherRows(coll, uid, pid) ==
    SelectSeq(coll, LAMBDA d : ~(d.user_id = uid /\ d.product_id = pid))

\* C10: a step of login (failed or not), list_products, get_cart or
\* flash_sales leaves the user, product and cartitem collections unchanged; a
\* step of add_to_cart for the pair (u, p) leaves the user and product
\* collections and every cart row of any other pair unchanged.
C10_Frame ==
    [][\A w \in Workers :
          /\ (/\ pc'[w] # pc[w]
              /\ req'[w].op \in {"login", "list_products", "get_cart", "flash"})
             => UNCHANGED <<user, product, cartitem>>
          /\ (pc'[w] # pc[w] /\ req'[w].op = "add_to_cart")
             => /\ UNCHANGED <<user, product>>
                /\ OtherRows(cartitem', req'[w].user_id, req'[w].product_id)
                     = OtherRows(cartitem, req'[w].user_id, req'[w].product_id)]_vars

\* C10 witness: an add has rewritten the row of its pair while a row of
\* another pair was stored beside it.
C10_Witness ==
    \E w \in Workers :
        /\ Answered(w, "add_to_cart")
        /\ loc[w].existing # <<>>
        /\ OtherRows(cartitem, req[w].user_id, req[w].product_id) # <<>>
        /\ \E i \in 1..Len(cartitem) :
              /\ cartitem[i]._id = loc[w].existing[1]._id
              /\ cartitem[i].quantity # loc[w].existing[1].quantity
====
